---- MODULE Spec2Model ----
(***************************************************************************)
(* AI-NGFW gateway: the decision pipeline of gateway/index.js (the TLS     *)
(* gateway, port 4001) and of the CP1 pass-through gateway (port 4000).    *)
(*                                                                         *)
(* Risk scores are modelled in hundredths (0.45 is 45).  Every sum the     *)
(* gateway forms from its weights (0.10 .. 0.75) lands, in IEEE doubles,   *)
(* on the same side of the thresholds 0.35, 0.4, 0.7, 0.95 and 1.0 as the  *)
(* exact sum does, so the integer model takes the same branches.           *)
(* Times are in milliseconds, as Date.now() gives them.                    *)
(***************************************************************************)
EXTENDS Integers, Sequences, FiniteSets, TLC

VARIABLES
    variant,        \* what runs: the "tls" or "cp1" gateway, the "limiter" or the "pure" functions alone
    now,            \* Date.now()
    rateLimitMap,   \* gateway/index.js: rateLimitMap (ip -> {count, resetTime})
    auditLogs,      \* auditLogs array of the running gateway
    reqs,           \* the /fw requests received so far, in arrival order
    adminOut,       \* the last response of an admin endpoint
    rlWin,          \* observer: per ip, start of the current window and calls in it
    rlLast,         \* observer: the last checkRateLimit call and what it returned
    lastCall        \* the last direct call of checkRBAC / checkRiskRule / the labels

vars == <<variant, now, rateLimitMap, auditLogs, reqs, adminOut, rlWin, rlLast, lastCall>>

----------------------------------------------------------------------------
(* Program constants *)

RATE_LIMIT_WINDOW == 60000
MAX_REQUESTS_PER_WINDOW == 20
BLOCK_THRESHOLD == 95      \* the block threshold 0.95 the claims speak of

(* Bounds of the model *)

MaxTime == 90001       \* the clock stops here
MaxReqs == 2           \* /fw requests received after Init
MaxOver == 1           \* calls beyond the ceiling followed per window (rate limiter runs)

----------------------------------------------------------------------------
(* Arithmetic and string helpers (JavaScript built-ins) *)

Min(a, b) == IF a <= b THEN a ELSE b

Max(a, b) == IF a >= b THEN a ELSE b

Max3(a, b, c) == Max(a, Max(b, c))

\* Math.ceil(a / b) for b > 0
CeilDiv(a, b) == IF a >= 0 THEN (a + b - 1) \div b ELSE -((-a) \div b)

\* String.prototype.startsWith
StartsWith(s, p) == Len(p) <= Len(s) /\ SubSeq(s, 1, Len(p)) = p

\* String.prototype.includes
Includes(s, p) == \E i \in 1..(Len(s) - Len(p) + 1) : SubSeq(s, i, i + Len(p) - 1) = p

\* s.replace('*', ''): removes the first '*' only
StripStar(s) ==
    IF Includes(s, "*")
    THEN LET i == CHOOSE k \in 1..Len(s) :
                    /\ SubSeq(s, k, k) = "*"
                    /\ \A j \in 1..(k - 1) : SubSeq(s, j, j) # "*"
         IN  SubSeq(s, 1, i - 1) \o SubSeq(s, i + 1, Len(s))
    ELSE s

\* String.prototype.toLowerCase on the user agents of the model
ToLowerCase(s) ==
    CASE s = "Mozilla/5.0"       -> "mozilla/5.0"
      [] s = "Python-urllib/3.9" -> "python-urllib/3.9"
      [] s = "Wget/1.21"         -> "wget/1.21"
      [] OTHER                   -> s

\* x || d for strings: the empty string stands for an absent header too
OrElse(x, d) == IF x = "" THEN d ELSE x

----------------------------------------------------------------------------
(* Pure parts of the TLS gateway (gateway/index.js) *)

\* A raw request is a record
\*   [ip, method, url, ua, hUserId, hRole, proto, cipher, servername, host, issuerCN]
\* where "" stands for an absent header or certificate field.

buildContext(req, t) ==
    [ ip        |-> req.ip,
      timestamp |-> t,
      method    |-> req.method,
      path      |-> req.url,
      userAgent |-> OrElse(req.ua, "unknown"),
      userId    |-> OrElse(req.hUserId, "anonymous"),
      role      |-> OrElse(req.hRole, "guest") ]

riskLabel(risk) ==
    IF risk >= 70 THEN "high_risk"
    ELSE IF risk >= 35 THEN "medium_risk" ELSE "normal"

\* checkRiskRule with 0.20 for the anonymous user
checkRiskRule_anon20(ctx) ==
    LET anon   == ctx.userId = "" \/ ctx.userId = "anonymous"
        admin  == StartsWith(ctx.path, "/admin")
        guest  == admin /\ ctx.role = "guest"
        honey  == StartsWith(ctx.path, "/honeypot")
        risk   == (IF anon THEN 20 ELSE 0) + (IF admin THEN 45 ELSE 0)
                  + (IF guest THEN 25 ELSE 0) + (IF honey THEN 75 ELSE 0)
        reasons == (IF anon THEN <<"no_user_id">> ELSE <<>>)
                   \o (IF admin THEN <<"admin_path">> ELSE <<>>)
                   \o (IF guest THEN <<"guest_on_admin_path">> ELSE <<>>)
                   \o (IF honey THEN <<"honeypot_path">> ELSE <<>>)
    IN  [ risk |-> risk, label |-> riskLabel(risk), reasons |-> reasons ]

\* checkRiskRule with the guest heuristic applied to every role
checkRiskRule_anyRoleOnAdmin(ctx) ==
    LET anon   == ctx.userId = "" \/ ctx.userId = "anonymous"
        admin  == StartsWith(ctx.path, "/admin")
        guest  == admin
        honey  == StartsWith(ctx.path, "/honeypot")
        risk   == (IF anon THEN 15 ELSE 0) + (IF admin THEN 45 ELSE 0)
                  + (IF guest THEN 25 ELSE 0) + (IF honey THEN 75 ELSE 0)
        reasons == (IF anon THEN <<"no_user_id">> ELSE <<>>)
                   \o (IF admin THEN <<"admin_path">> ELSE <<>>)
                   \o (IF guest THEN <<"guest_on_admin_path">> ELSE <<>>)
                   \o (IF honey THEN <<"honeypot_path">> ELSE <<>>)
    IN  [ risk |-> risk, label |-> riskLabel(risk), reasons |-> reasons ]

\* checkRiskRule with the guest heuristic assigning its weight (risk = 0.25)
\* where the code adds it
checkRiskRule_guestAssigns(ctx) ==
    LET anon   == ctx.userId = "" \/ ctx.userId = "anonymous"
        admin  == StartsWith(ctx.path, "/admin")
        guest  == admin /\ ctx.role = "guest"
        honey  == StartsWith(ctx.path, "/honeypot")
        before == (IF anon THEN 15 ELSE 0) + (IF admin THEN 45 ELSE 0)
        risk   == (IF guest THEN 25 ELSE before) + (IF honey THEN 75 ELSE 0)
        reasons == (IF anon THEN <<"no_user_id">> ELSE <<>>)
                   \o (IF admin THEN <<"admin_path">> ELSE <<>>)
                   \o (IF guest THEN <<"guest_on_admin_path">> ELSE <<>>)
                   \o (IF honey THEN <<"honeypot_path">> ELSE <<>>)
    IN  [ risk |-> risk, label |-> riskLabel(risk), reasons |-> reasons ]

checkRiskRule(ctx) ==
    LET anon   == ctx.userId = "" \/ ctx.userId = "anonymous"
        admin  == StartsWith(ctx.path, "/admin")
        guest  == admin /\ ctx.role = "guest"
        honey  == StartsWith(ctx.path, "/honeypot")
        risk   == (IF anon THEN 15 ELSE 0) + (IF admin THEN 45 ELSE 0)
                  + (IF guest THEN 25 ELSE 0) + (IF honey THEN 75 ELSE 0)
        reasons == (IF anon THEN <<"no_user_id">> ELSE <<>>)
                   \o (IF admin THEN <<"admin_path">> ELSE <<>>)
                   \o (IF guest THEN <<"guest_on_admin_path">> ELSE <<>>)
                   \o (IF honey THEN <<"honeypot_path">> ELSE <<>>)
    IN  [ risk |-> risk, label |-> riskLabel(risk), reasons |-> reasons ]

\* What scoreWithML returns.  ans is the outcome of the POST to the ML
\* service: [ok |-> FALSE] when axios rejects, else the ml_risk / ml_label
\* of the body, 0 and "" standing for a field the body does not carry.
scoreWithML(ans) ==
    IF ans.ok
    THEN [ ml_risk  |-> ans.ml_risk,                   \* res.data.ml_risk || 0.0
           ml_label |-> OrElse(ans.ml_label, "normal") ]
    ELSE [ ml_risk |-> 0, ml_label |-> "normal" ]

RBAC ==
    [ guest |-> [ allow |-> <<"/info">>,
                  deny  |-> <<"/admin", "/admin/secret", "/admin/*">> ],
      user  |-> [ allow |-> <<"/info", "/profile">>,
                  deny  |-> <<"/admin", "/admin/*">> ],
      admin |-> [ allow |-> <<"*">>, deny |-> <<>> ] ]

\* Property names every JavaScript object inherits: RBAC[role] is then a
\* truthy value of Object.prototype that has no allow / deny lists.
ProtoKeys == { "constructor", "toString" }

\* checkRBAC throws a TypeError at rules.allow.includes
checkRBACThrows(role, pathReq) ==
    /\ role \in ProtoKeys
    /\ ~StartsWith(pathReq, "/honeypot")

\* checkRBAC with the wildcard looked at before the honeypot prefix
checkRBAC_wildcardFirst(role, pathReq) ==
    LET rules == IF role \in DOMAIN RBAC THEN RBAC[role] ELSE RBAC.guest
        hit(list) == \E i \in 1..Len(list) : StartsWith(pathReq, StripStar(list[i]))
    IN  IF \E i \in 1..Len(rules.allow) : rules.allow[i] = "*" THEN TRUE
        ELSE IF StartsWith(pathReq, "/honeypot") THEN FALSE
        ELSE IF hit(rules.deny) THEN FALSE
        ELSE IF hit(rules.allow) THEN TRUE
        ELSE FALSE

checkRBAC(role, pathReq) ==
    LET rules == IF role \in DOMAIN RBAC THEN RBAC[role] ELSE RBAC.guest
        hit(list) == \E i \in 1..Len(list) : StartsWith(pathReq, StripStar(list[i]))
    IN  IF StartsWith(pathReq, "/honeypot") THEN FALSE
        ELSE IF \E i \in 1..Len(rules.allow) : rules.allow[i] = "*" THEN TRUE
        ELSE IF hit(rules.deny) THEN FALSE
        ELSE IF hit(rules.allow) THEN TRUE
        ELSE FALSE

WeakCipher(name) == Includes(name, "RC4") \/ Includes(name, "CBC") \/ Includes(name, "3DES")

\* The JA3 middleware: req.tlsFingerprint
tlsFingerprint(req) ==
    LET sni      == OrElse(req.servername, OrElse(req.host, "unknown"))
        issuer   == OrElse(req.issuerCN, "unknown")
        ua       == ToLowerCase(req.ua)
        scripted == Includes(ua, "curl") \/ Includes(ua, "python-urllib")
                    \/ Includes(ua, "wget") \/ Includes(ua, "node-fetch")
        weak     == WeakCipher(req.cipher)
        local    == sni = "localhost" \/ sni = "127.0.0.1"
        selfs    == issuer = "unknown" \/ Includes(issuer, "self-signed")
    IN  [ botScore |-> (IF scripted THEN 35 ELSE 0) + (IF weak THEN 25 ELSE 0)
                       + (IF local THEN 10 ELSE 0) + (IF selfs THEN 15 ELSE 0),
          signals  |-> (IF scripted THEN <<"scripted_ua">> ELSE <<>>)
                       \o (IF weak THEN <<"weak_cipher">> ELSE <<>>)
                       \o (IF local THEN <<"local_sni">> ELSE <<>>)
                       \o (IF selfs THEN <<"selfsigned_cert">> ELSE <<>>) ]

\* The "TLS DPI rules" of inspectAndForward: tlsRisk and tlsReasons
tlsDPI(req, ctx) ==
    LET fp        == tlsFingerprint(req)
        downgrade == req.proto # "https"
        weak      == WeakCipher(req.cipher)
        susUA     == /\ \/ Includes(req.ua, "curl") \/ Includes(req.ua, "wget")
                        \/ Includes(req.ua, "Python-urllib")
                     /\ ctx.role = "guest"
        sum       == fp.botScore + (IF downgrade THEN 20 ELSE 0)
                     + (IF weak THEN 30 ELSE 0) + (IF susUA THEN 15 ELSE 0)
    IN  [ risk    |-> Min(sum, 100),
          reasons |-> (IF fp.botScore # 0 THEN fp.signals ELSE <<>>)
                      \o (IF downgrade THEN <<"protocol_downgrade">> ELSE <<>>)
                      \o (IF weak THEN <<"weak_cipher_suite">> ELSE <<>>)
                      \o (IF susUA THEN <<"suspicious_ua">> ELSE <<>>) ]

\* the aggregation the README describes: max(ruleRisk, mlRisk)
finalRiskOf_ruleAndML(ruleRisk, mlRisk, tlsRisk) == Max(ruleRisk, mlRisk)

\* Decision Aggregator of inspectAndForward
finalRiskOf(ruleRisk, mlRisk, tlsRisk) == Max3(ruleRisk, mlRisk, tlsRisk)

finalLabelOf(finalRisk) ==
    IF finalRisk >= 70 THEN "high_risk"
    ELSE IF finalRisk >= 40 THEN "medium_risk" ELSE "normal"

\* decision.allow as the audit entry records it
decisionAllow(rbacAllowed, finalRisk) == rbacAllowed /\ finalRisk < 95

\* the 403 condition with the other threshold of the design, 0.90
blocks_at90(rbacAllowed, finalRisk) == ~rbacAllowed \/ finalRisk >= 90

\* the 403 condition without the RBAC result
blocks_riskOnly(rbacAllowed, finalRisk) == finalRisk >= 95

\* the condition under which inspectAndForward answers 403
blocks(rbacAllowed, finalRisk) == ~rbacAllowed \/ finalRisk >= 95

\* the reason chosen by the risk first: a critical risk hides the RBAC denial
blockReason_riskFirst(rbacAllowed, finalRisk) ==
    IF finalRisk >= 95 THEN "Critical risk" ELSE "RBAC violation"

\* the reason of the 403 body (line 203)
blockReason(rbacAllowed, finalRisk) ==
    IF ~rbacAllowed THEN "RBAC violation" ELSE "Critical risk"

\* checkRateLimit starting the count again once a call was denied
checkRateLimit_restartOnDeny(map, ip, t) ==
    LET got    == IF ip \in DOMAIN map THEN map[ip]
                  ELSE [count |-> 0, resetTime |-> t + RATE_LIMIT_WINDOW]
        ipData == IF t > got.resetTime
                  THEN [count |-> 0, resetTime |-> t + RATE_LIMIT_WINDOW]
                  ELSE got
        count  == ipData.count + 1
    IN  [ entry     |-> [count |-> IF count > MAX_REQUESTS_PER_WINDOW THEN 0 ELSE count,
                         resetTime |-> ipData.resetTime],
          allowed   |-> ~(count > MAX_REQUESTS_PER_WINDOW),
          remaining |-> MAX_REQUESTS_PER_WINDOW - count,
          reset     |-> CeilDiv(ipData.resetTime - t, 1000) ]

\* checkRateLimit with the ceiling compared by >= : call N is denied already
checkRateLimit_inclusive(map, ip, t) ==
    LET got    == IF ip \in DOMAIN map THEN map[ip]
                  ELSE [count |-> 0, resetTime |-> t + RATE_LIMIT_WINDOW]
        ipData == IF t > got.resetTime
                  THEN [count |-> 0, resetTime |-> t + RATE_LIMIT_WINDOW]
                  ELSE got
        count  == ipData.count + 1
    IN  [ entry     |-> [count |-> count, resetTime |-> ipData.resetTime],
          allowed   |-> ~(count >= MAX_REQUESTS_PER_WINDOW),
          remaining |-> MAX_REQUESTS_PER_WINDOW - count,
          reset     |-> CeilDiv(ipData.resetTime - t, 1000) ]

\* checkRateLimit reporting remaining as the audit reason prints it, never
\* below zero
checkRateLimit_clampRemaining(map, ip, t) ==
    LET got    == IF ip \in DOMAIN map THEN map[ip]
                  ELSE [count |-> 0, resetTime |-> t + RATE_LIMIT_WINDOW]
        ipData == IF t > got.resetTime
                  THEN [count |-> 0, resetTime |-> t + RATE_LIMIT_WINDOW]
                  ELSE got
        count  == ipData.count + 1
    IN  [ entry     |-> [count |-> count, resetTime |-> ipData.resetTime],
          allowed   |-> ~(count > MAX_REQUESTS_PER_WINDOW),
          remaining |-> Max(MAX_REQUESTS_PER_WINDOW - count, 0),
          reset     |-> CeilDiv(ipData.resetTime - t, 1000) ]

\* checkRateLimit(ip) at time t on the table map: the new entry and the result
checkRateLimit(map, ip, t) ==
    LET got    == IF ip \in DOMAIN map THEN map[ip]
                  ELSE [count |-> 0, resetTime |-> t + RATE_LIMIT_WINDOW]
        ipData == IF t > got.resetTime
                  THEN [count |-> 0, resetTime |-> t + RATE_LIMIT_WINDOW]
                  ELSE got
        count  == ipData.count + 1
    IN  [ entry     |-> [count |-> count, resetTime |-> ipData.resetTime],
          allowed   |-> ~(count > MAX_REQUESTS_PER_WINDOW),
          remaining |-> MAX_REQUESTS_PER_WINDOW - count,
          reset     |-> CeilDiv(ipData.resetTime - t, 1000) ]

\* req.url.replace(/^\/fw/, ''): a leading "/fw" is removed
forwardPathOf(url) ==
    IF StartsWith(url, "/fw") THEN SubSeq(url, 4, Len(url)) ELSE url

\* the backend the TLS gateway forwards to
BACKEND == "https://localhost:9001"

\* the segments of a path, split at "/"
RECURSIVE Split(_, _)
Split(s, cur) ==
    IF Len(s) = 0 THEN <<cur>>
    ELSE LET c    == SubSeq(s, 1, 1)
             rest == SubSeq(s, 2, Len(s))
         IN  IF c = "/" THEN <<cur>> \o Split(rest, "") ELSE Split(rest, cur \o c)

\* "." and ".." segments resolved as a URL parser does
RECURSIVE Resolve(_, _)
Resolve(segs, out) ==
    IF segs = <<>> THEN out
    ELSE LET g == Head(segs)
         IN  IF g = "." THEN Resolve(Tail(segs), out)
             ELSE IF g = ".."
                  THEN Resolve(Tail(segs),
                               IF out = <<>> THEN out ELSE SubSeq(out, 1, Len(out) - 1))
                  ELSE Resolve(Tail(segs), Append(out, g))

RECURSIVE Join(_)
Join(segs) == IF segs = <<>> THEN "" ELSE "/" \o Head(segs) \o Join(Tail(segs))

\* What axios puts on the request line for url: BACKEND + path.  The version
\* of axios is not pinned: 0.x parses the URL with url.parse and sends the
\* path as written, 1.x parses it with new URL(), which resolves dot segments.
HttpClients == { "url.parse", "URL" }

RequestPath(path, client) ==
    IF client = "url.parse" THEN path
    ELSE LET out == Resolve(Tail(Split(path, "")), <<>>)
         IN  IF out = <<>> THEN "/" ELSE Join(out)

\* one entry shared by all keys: setting one sets every entry of the table
MapSet_shared(map, k, v) == [x \in DOMAIN map \cup {k} |-> v]

\* Map.prototype.set
MapSet(map, k, v) == [x \in DOMAIN map \cup {k} |-> IF x = k THEN v ELSE map[x]]

----------------------------------------------------------------------------
(* Inputs of the model *)

IPs == { "10.0.0.1", "10.0.0.2" }

Browser ==
    [ method |-> "GET", ua |-> "Mozilla/5.0", proto |-> "https",
      cipher |-> "TLS_AES_256_GCM_SHA384", servername |-> "gw.example",
      host |-> "gw.example", issuerCN |-> "Corp CA" ]

With(base, ip, role, userId, url) ==
    [ ip |-> ip, hRole |-> role, hUserId |-> userId, url |-> url,
      method |-> base.method, ua |-> base.ua, proto |-> base.proto,
      cipher |-> base.cipher, servername |-> base.servername,
      host |-> base.host, issuerCN |-> base.issuerCN ]

\* a scripted client: curl over a CBC suite, no x-forwarded-proto, no client
\* certificate, reaching the gateway as localhost
Script == [ Browser EXCEPT !.ua = "curl/8.4", !.proto = "",
            !.cipher = "ECDHE-RSA-AES128-CBC-SHA", !.servername = "",
            !.host = "localhost", !.issuerCN = "" ]

\* a browser without a client certificate, behind a plain-http hop
Plain == [ Browser EXCEPT !.proto = "http", !.issuerCN = "" ]

\* a browser that reaches the gateway directly at https://localhost:4001: no
\* proxy in front (no x-forwarded-proto), no client certificate
Local == [ Browser EXCEPT !.proto = "", !.servername = "localhost",
           !.host = "localhost:4001", !.issuerCN = "" ]

\* The requests the model sends to /fw
Requests ==
    { With(Browser, "10.0.0.1", "user", "alice", "/info"),
      With(Browser, "10.0.0.1", "", "", "/admin/secret"),
      With(Plain,   "10.0.0.2", "admin", "root", "/admin/secret"),
      With(Script,  "10.0.0.1", "guest", "", "/info"),
      With(Browser, "10.0.0.2", "constructor", "bob", "/info") }

\* What the POST to the ML service can come to: a rejected call (transport
\* error) or a body; ml_risk is a number in [0,1] as the service's contract
\* says, 0 also standing for a body without ml_risk.
MLAnswers ==
    { [ok |-> FALSE, ml_risk |-> 0,  ml_label |-> ""],
      [ok |-> TRUE,  ml_risk |-> 0,  ml_label |-> ""],
      [ok |-> TRUE,  ml_risk |-> 92, ml_label |-> "high_risk"],
      [ok |-> TRUE,  ml_risk |-> 97, ml_label |-> "high_risk"] }

\* Status codes the backend answers with (validateStatus accepts all)
BackendStatuses == { 200, 403 }

----------------------------------------------------------------------------
(* Records of the state *)

NoResponse == [ status |-> 0, kind |-> "none", reason |-> "", remaining |-> 0, reset |-> 0 ]

NoDecision == [ risk |-> 0, label |-> "", reasons |-> <<>> ]

\* the request record when the handler starts
NewReq(req, ctx) ==
    [ req |-> req, ctx |-> ctx, pc |-> "start",
      limited |-> FALSE,
      ruleDecision |-> NoDecision, tls |-> [risk |-> 0, reasons |-> <<>>],
      mlState |-> "none", ml |-> [ml_risk |-> 0, ml_label |-> ""],
      finalRisk |-> 0, finalLabel |-> "", rbacAllowed |-> FALSE,
      decided |-> FALSE, invoked |-> {}, backendCalls |-> 0,
      forwardPath |-> "", target |-> "", sent |-> "",
      response |-> NoResponse ]

\* an audit entry; kind tells which fields the JavaScript object carries:
\*   "ratelimited": time, context, decision {allow, risk, label, reasons}
\*   "decision":    all but statusCode and error
\*   "error":       a copy of the decision entry plus statusCode and error
\*   "cp1":         time, context, decision {allow, label}, targetPath, statusCode
\*   "cp1_error":   the same plus error
Entry(id, kind, t, ctx) ==
    [ id |-> id, kind |-> kind, time |-> t, context |-> ctx,
      allow |-> FALSE, risk |-> 0, label |-> "", rbac |-> FALSE,
      reasons |-> <<>>, ruleRisk |-> 0, mlRisk |-> 0, tlsRisk |-> 0,
      targetPath |-> "", statusCode |-> 0, error |-> "",
      remaining |-> 0, reset |-> 0 ]

----------------------------------------------------------------------------
(* Observer of the rate limiter: windows as a client sees them.  A window   *)
(* of an ip opens with a call and lasts RATE_LIMIT_WINDOW ms; a call later  *)
(* than that opens the next one.  index numbers the windows of the ip,      *)
(* calls counts the calls in the current one, denied tells whether one of   *)
(* them was denied, before whether one was denied in the window before,     *)
(* passed counts the calls of the current window that were allowed.         *)

NoWindow == [ open |-> FALSE, index |-> 0, start |-> 0, calls |-> 0,
              passed |-> 0, denied |-> FALSE, before |-> FALSE ]

ObserveCall(w, ip, t, allowed) ==
    LET old   == w[ip]
        fresh == ~old.open \/ t > old.start + RATE_LIMIT_WINDOW
    IN  [ w EXCEPT ![ip] =
            [ open   |-> TRUE,
              index  |-> IF fresh THEN old.index + 1 ELSE old.index,
              before |-> IF fresh THEN old.denied ELSE old.before,
              start  |-> IF fresh THEN t ELSE old.start,
              calls  |-> IF fresh THEN 1 ELSE old.calls + 1,
              passed |-> (IF fresh THEN 0 ELSE old.passed)
                         + (IF allowed THEN 1 ELSE 0),
              denied |-> IF fresh THEN ~allowed ELSE old.denied \/ ~allowed ] ]

----------------------------------------------------------------------------
(* inspectAndForward, the /fw handler of the TLS gateway *)

NumReqs == Len(reqs)

\* the entry pushed twice
Push_twice(log, e) == Append(Append(log, e), e)

\* unshift instead of push: the newest entry first
Push_unshift(log, e) == <<e>> \o log

\* auditLogs.push(e)
Push(log, e) == Append(log, e)

\* the rate-limit entry logged like an ordinary decision of no risk
RateLimitedEntry_noRisk(id, t, ctx, rl) ==
    [ Entry(id, "ratelimited", t, ctx) EXCEPT
        !.allow = FALSE, !.risk = 0, !.label = "normal",
        !.reasons = <<"Rate limit exceeded">>,
        !.remaining = IF rl.remaining < 0 THEN 0 ELSE rl.remaining,
        !.reset = rl.reset ]

RateLimitedEntry(id, t, ctx, rl) ==
    [ Entry(id, "ratelimited", t, ctx) EXCEPT
        !.allow = FALSE, !.risk = 100, !.label = "ratelimited",
        !.reasons = <<"Rate limit exceeded">>,
        !.remaining = IF rl.remaining < 0 THEN 0 ELSE rl.remaining,
        !.reset = rl.reset ]

DecisionEntry(id, t, r) ==
    [ Entry(id, "decision", t, r.ctx) EXCEPT
        !.allow = decisionAllow(r.rbacAllowed, r.finalRisk),
        !.label = r.finalLabel, !.rbac = r.rbacAllowed, !.risk = r.finalRisk,
        !.targetPath = r.forwardPath,
        !.ruleRisk = r.ruleDecision.risk, !.mlRisk = r.ml.ml_risk,
        !.tlsRisk = r.tls.risk,
        !.reasons = r.ruleDecision.reasons \o r.tls.reasons ]

\* { ...entry, statusCode: 500, error: err.message }
BackendErrorEntry(entry) ==
    [ entry EXCEPT !.kind = "error", !.statusCode = 500, !.error = "backend" ]

\* the entry the handler of request id built at line 183
EntryOf(id) == CHOOSE e \in { auditLogs[i] : i \in 1..Len(auditLogs) } :
                   e.id = id /\ e.kind = "decision"

\* lines 111-168: context, rate limiter, TLS DPI rules, rule engine, and the
\* ML call is sent
ReceiveUpTo(req, max) ==
    /\ variant = "tls"
    /\ NumReqs < max
    /\ LET id  == NumReqs + 1
           ctx == buildContext(req, now)
           rl  == checkRateLimit(rateLimitMap, ctx.ip, now)
           fwd == forwardPathOf(req.url)
           r0  == NewReq(req, ctx)
       IN  /\ rateLimitMap' = MapSet(rateLimitMap, ctx.ip, rl.entry)
           /\ rlWin' = ObserveCall(rlWin, ctx.ip, now, rl.allowed)
           /\ rlLast' = [ ip |-> ctx.ip, allowed |-> rl.allowed,
                          remaining |-> rl.remaining, reset |-> rl.reset ]
           /\ IF ~rl.allowed
              THEN /\ auditLogs' = Push(auditLogs, RateLimitedEntry(id, now, ctx, rl))
                   /\ reqs' = Append(reqs,
                        [ r0 EXCEPT !.pc = "done", !.limited = TRUE,
                            !.response = [ status |-> 429, kind |-> "ratelimit",
                                           reason |-> "Too Many Requests",
                                           remaining |-> rl.remaining,
                                           reset |-> rl.reset ] ])
              ELSE /\ auditLogs' = auditLogs
                   /\ reqs' = Append(reqs,
                        [ r0 EXCEPT !.pc = "ml", !.mlState = "pending",
                            !.forwardPath = fwd, !.target = BACKEND \o fwd,
                            !.tls = tlsDPI(req, ctx),
                            !.ruleDecision = checkRiskRule(ctx),
                            !.invoked = {"rule", "ml"} ])
    /\ UNCHANGED <<variant, lastCall, adminOut, now>>

Receive(req) == ReceiveUpTo(req, MaxReqs)

\* lines 169-223: scoreWithML returns (answer or rejected call), the decision
\* is taken and logged, and the request is blocked or sent to the backend
Decide(id, ans) ==
    /\ variant = "tls"
    /\ id \in 1..NumReqs
    /\ reqs[id].pc = "ml" /\ reqs[id].mlState = "pending"
    /\ LET r   == reqs[id]
           ml  == scoreWithML(ans)
           fin == finalRiskOf(r.ruleDecision.risk, ml.ml_risk, r.tls.risk)
           r1  == [ r EXCEPT !.ml = ml,
                      !.mlState = IF ans.ok THEN "answered" ELSE "failed",
                      !.finalRisk = fin, !.finalLabel = finalLabelOf(fin),
                      !.invoked = @ \cup {"rbac"} ]
       IN  IF checkRBACThrows(r.ctx.role, r.forwardPath)
           THEN \* The TypeError rejects the promise of the async handler and
                \* nothing is logged.  What the client gets is up to the
                \* Express in use: version 4 leaves the rejection unhandled
                \* and sends nothing, version 5 answers 500.
                /\ \E status \in {0, 500} :
                     reqs' = [ reqs EXCEPT ![id] =
                        [ r1 EXCEPT !.pc = "aborted",
                            !.response = IF status = 0 THEN NoResponse
                                         ELSE [ NoResponse EXCEPT !.status = status,
                                                  !.kind = "unhandled" ] ] ]
                /\ auditLogs' = auditLogs
           ELSE LET r2 == [ r1 EXCEPT !.rbacAllowed = checkRBAC(r.ctx.role, r.forwardPath),
                                      !.decided = TRUE ]
                IN  /\ auditLogs' = Push(auditLogs, DecisionEntry(id, now, r2))
                    /\ IF blocks(r2.rbacAllowed, r2.finalRisk)
                       THEN reqs' = [ reqs EXCEPT ![id] =
                              [ r2 EXCEPT !.pc = "done",
                                  !.response = [ NoResponse EXCEPT
                                      !.status = 403, !.kind = "block",
                                      !.reason = blockReason(r2.rbacAllowed,
                                                             r2.finalRisk) ] ] ]
                       ELSE \E client \in HttpClients :
                              reqs' = [ reqs EXCEPT ![id] =
                                [ r2 EXCEPT !.pc = "backend",
                                    !.invoked = @ \cup {"backend"},
                                    !.backendCalls = @ + 1,
                                    !.sent = RequestPath(r2.forwardPath, client) ] ]
    /\ UNCHANGED <<variant, lastCall, adminOut, now, rateLimitMap, rlWin, rlLast>>

\* The ML service accepted the POST and never answers.  axios.post is called
\* without a timeout, so the promise stays pending and the handler with it.
MLHang(id) ==
    /\ variant = "tls"
    /\ id \in 1..NumReqs
    /\ reqs[id].pc = "ml" /\ reqs[id].mlState = "pending"
    /\ reqs' = [ reqs EXCEPT ![id].mlState = "hung" ]
    /\ UNCHANGED <<variant, lastCall, adminOut, now, rateLimitMap, auditLogs, rlWin, rlLast>>

\* lines 224-232: the backend answered; its status and body are relayed
Relay(id, status) ==
    /\ variant = "tls"
    /\ id \in 1..NumReqs
    /\ reqs[id].pc = "backend"
    /\ reqs' = [ reqs EXCEPT ![id].pc = "done",
                   ![id].response = [ NoResponse EXCEPT
                                        !.status = status, !.kind = "relay" ] ]
    /\ UNCHANGED <<variant, lastCall, adminOut, now, rateLimitMap, auditLogs, rlWin, rlLast>>

\* the catch block sending the request to the backend a second time
BackendError_retryOnce(id) ==
    /\ variant = "tls"
    /\ id \in 1..NumReqs
    /\ reqs[id].pc = "backend"
    /\ IF reqs[id].backendCalls < 2
       THEN /\ auditLogs' = auditLogs
            /\ reqs' = [ reqs EXCEPT ![id].backendCalls = @ + 1 ]
       ELSE /\ auditLogs' = Push(auditLogs, BackendErrorEntry(EntryOf(id)))
            /\ reqs' = [ reqs EXCEPT ![id].pc = "done",
                           ![id].response = [ NoResponse EXCEPT
                                                !.status = 500, !.kind = "backend_error",
                                                !.reason = "TLS Backend unavailable" ] ]
    /\ UNCHANGED <<variant, lastCall, adminOut, now, rateLimitMap, rlWin, rlLast>>

\* lines 233-237: the backend call failed (connection error or the 10 s timeout)
BackendError(id) ==
    /\ variant = "tls"
    /\ id \in 1..NumReqs
    /\ reqs[id].pc = "backend"
    /\ auditLogs' = Push(auditLogs, BackendErrorEntry(EntryOf(id)))
    /\ reqs' = [ reqs EXCEPT ![id].pc = "done",
                   ![id].response = [ NoResponse EXCEPT
                                        !.status = 500, !.kind = "backend_error",
                                        !.reason = "TLS Backend unavailable" ] ]
    /\ UNCHANGED <<variant, lastCall, adminOut, now, rateLimitMap, rlWin, rlLast>>

----------------------------------------------------------------------------
(* The /fw handler of the CP1 pass-through gateway *)

\* lines 261-274 of the CP1 gateway: the context is built and the request is
\* sent to the backend
Cp1ReceiveUpTo(req, max) ==
    /\ variant = "cp1"
    /\ NumReqs < max
    /\ reqs' = Append(reqs, [ NewReq(req, buildContext(req, now)) EXCEPT
                                !.pc = "backend", !.invoked = {"backend"},
                                !.backendCalls = 1 ])
    /\ UNCHANGED <<variant, lastCall, adminOut, now, rateLimitMap, auditLogs, rlWin, rlLast>>

Cp1Receive(req) == Cp1ReceiveUpTo(req, MaxReqs)

\* lines 276-290: the backend answered; the entry is logged, the answer relayed
Cp1Relay(id, status) ==
    /\ variant = "cp1"
    /\ id \in 1..NumReqs
    /\ reqs[id].pc = "backend"
    /\ auditLogs' = Push(auditLogs,
            [ Entry(id, "cp1", now, reqs[id].ctx) EXCEPT
                !.allow = TRUE, !.label = "pass_through",
                !.targetPath = reqs[id].req.url, !.statusCode = status ])
    /\ reqs' = [ reqs EXCEPT ![id].pc = "done",
                   ![id].response = [ NoResponse EXCEPT
                                        !.status = status, !.kind = "relay" ] ]
    /\ UNCHANGED <<variant, lastCall, adminOut, now, rateLimitMap, rlWin, rlLast>>

\* lines 291-312: the backend call failed
Cp1BackendError(id) ==
    /\ variant = "cp1"
    /\ id \in 1..NumReqs
    /\ reqs[id].pc = "backend"
    /\ auditLogs' = Push(auditLogs,
            [ Entry(id, "cp1_error", now, reqs[id].ctx) EXCEPT
                !.allow = FALSE, !.label = "gateway_error",
                !.targetPath = reqs[id].req.url, !.statusCode = 500,
                !.error = "backend" ])
    /\ reqs' = [ reqs EXCEPT ![id].pc = "done",
                   ![id].response = [ NoResponse EXCEPT
                                        !.status = 500, !.kind = "backend_error",
                                        !.reason = "Error forwarding to backend" ] ]
    /\ UNCHANGED <<variant, lastCall, adminOut, now, rateLimitMap, rlWin, rlLast>>

----------------------------------------------------------------------------
(* Admin endpoints of the TLS gateway (createAdminEndpoints) *)

NULL == 0 - 1      \* JavaScript null / undefined in a numeric field

NoAdminOut == [ endpoint |-> "", status |-> 0, contentType |-> "", logCount |-> 0,
                body |-> <<>> ]

\* the fields of entry.decision, by kind of entry
DecHas(e, field) ==
    CASE e.kind = "ratelimited" -> field \in {"allow", "risk", "label", "reasons"}
      [] e.kind \in {"decision", "error"} -> field \in {"allow", "label", "rbac", "risk"}
      [] OTHER -> field \in {"allow", "label"}

HasStatus(e) == e.kind \in {"error", "cp1", "cp1_error"}

normalizeLogForSIEM(e) ==
    LET isAllowed == IF HasStatus(e) THEN e.statusCode < 400 ELSE e.allow
    IN  [ timestamp   |-> e.time,
          event_type  |-> "firewall_decision",
          source_ip   |-> OrElse(e.context.ip, "unknown"),
          http_method |-> OrElse(e.context.method, "GET"),
          url_path    |-> OrElse(e.context.path, OrElse(e.targetPath, "/")),
          user_id     |-> OrElse(e.context.userId, "anonymous"),
          user_role   |-> OrElse(e.context.role, "guest"),
          action      |-> IF isAllowed THEN "allowed" ELSE "blocked",
          status_code |-> IF HasStatus(e) THEN e.statusCode ELSE NULL,
          risk_score  |-> IF DecHas(e, "risk") THEN e.risk ELSE NULL,
          rule_risk   |-> IF DecHas(e, "rule_risk") THEN e.ruleRisk ELSE NULL,
          ml_risk     |-> IF DecHas(e, "ml_risk") THEN e.mlRisk ELSE NULL,
          risk_label  |-> OrElse(IF DecHas(e, "label") THEN e.label ELSE "", "normal"),
          ml_label    |-> "normal",
          gateway_service   |-> "ai-ngfw-gateway",
          protected_service |-> "dummy-backend",
          reasons     |-> IF DecHas(e, "reasons") THEN e.reasons ELSE <<>> ]

\* one CSV row: the sixteen columns of logsToCSV, reasons not among them
csvRow(n) ==
    << n.timestamp, n.event_type, n.source_ip, n.http_method, n.url_path,
       n.user_id, n.user_role, n.action, n.status_code, n.risk_score,
       n.rule_risk, n.ml_risk, n.risk_label, n.ml_label,
       n.gateway_service, n.protected_service >>

\* GET /health
GetHealth ==
    /\ variant = "tls"
    /\ adminOut' = [ NoAdminOut EXCEPT !.endpoint = "/health", !.status = 200,
                                       !.logCount = Len(auditLogs) ]
    /\ UNCHANGED <<variant, lastCall, now, rateLimitMap, auditLogs, reqs, rlWin, rlLast>>

\* GET /admin/logs
GetLogs ==
    /\ variant = "tls"
    /\ adminOut' = [ NoAdminOut EXCEPT !.endpoint = "/admin/logs", !.status = 200,
                                       !.logCount = Len(auditLogs),
                                       !.body = auditLogs ]
    /\ UNCHANGED <<variant, lastCall, now, rateLimitMap, auditLogs, reqs, rlWin, rlLast>>

\* GET /admin/logs/export?format=...
ExportLogs(format) ==
    /\ variant = "tls"
    /\ LET normalized == [ i \in 1..Len(auditLogs) |-> normalizeLogForSIEM(auditLogs[i]) ]
       IN  adminOut' =
             [ NoAdminOut EXCEPT
                 !.endpoint = "/admin/logs/export", !.status = 200,
                 !.contentType = IF format = "csv" THEN "text/csv"
                                 ELSE "application/json",
                 !.logCount = Len(auditLogs),
                 !.body = IF format = "csv"
                          THEN [ i \in 1..Len(auditLogs) |-> csvRow(normalized[i]) ]
                          ELSE normalized ]
    /\ UNCHANGED <<variant, lastCall, now, rateLimitMap, auditLogs, reqs, rlWin, rlLast>>

\* GET /admin/logs of the CP1 gateway
Cp1GetLogs ==
    /\ variant = "cp1"
    /\ adminOut' = [ NoAdminOut EXCEPT !.endpoint = "/admin/logs", !.status = 200,
                                       !.logCount = Len(auditLogs),
                                       !.body = auditLogs ]
    /\ UNCHANGED <<variant, lastCall, now, rateLimitMap, auditLogs, reqs, rlWin, rlLast>>

\* GET /verify-chain: neither gateway registers such a route (the TLS gateway
\* serves /health, /admin/logs, /fw and /admin/logs/export, the CP1 gateway
\* /health, /admin/logs and /fw), so Express answers with its final handler:
\* 404 and no JSON body.
VerifyChain ==
    /\ variant \in {"tls", "cp1"}
    /\ adminOut' = [ NoAdminOut EXCEPT !.endpoint = "/verify-chain", !.status = 404,
                                       !.logCount = Len(auditLogs) ]
    /\ UNCHANGED <<variant, lastCall, now, rateLimitMap, auditLogs, reqs, rlWin, rlLast>>

----------------------------------------------------------------------------
(* Time, and the rate limiter driven alone *)

Deltas == { RATE_LIMIT_WINDOW \div 2, RATE_LIMIT_WINDOW + 1 }

Tick(d) ==
    /\ now + d <= MaxTime
    /\ now' = now + d
    /\ UNCHANGED <<variant, lastCall, adminOut, rateLimitMap, auditLogs, reqs, rlWin, rlLast>>

\* one call of checkRateLimit(ip)
Call(ip) ==
    /\ variant = "limiter"
    /\ IF ip \in DOMAIN rateLimitMap /\ now <= rateLimitMap[ip].resetTime
       THEN rateLimitMap[ip].count < MAX_REQUESTS_PER_WINDOW + MaxOver
       ELSE TRUE
    /\ LET rl == checkRateLimit(rateLimitMap, ip, now)
       IN  /\ rateLimitMap' = MapSet(rateLimitMap, ip, rl.entry)
           /\ rlWin' = ObserveCall(rlWin, ip, now, rl.allowed)
           /\ rlLast' = [ ip |-> ip, allowed |-> rl.allowed,
                          remaining |-> rl.remaining, reset |-> rl.reset ]
    /\ UNCHANGED <<variant, lastCall, adminOut, now, auditLogs, reqs>>

----------------------------------------------------------------------------
(* The pure functions called directly *)

\* role values: the configured roles, other header strings, and names every
\* object inherits
Roles == { "guest", "user", "admin", "manager", "root", "" } \cup ProtoKeys

Paths == { "/", "/info", "/information", "/profile", "/other", "/admin",
           "/admin/secret", "/administrator", "/honeypot", "/honeypot/admin" }

UserIds == { "alice", "anonymous", "" }

\* risk scores in hundredths, up to the largest rule risk (0.15 + 0.45 + 0.25 + 0.75)
Scores == 0..160

Contexts ==
    { [ ip |-> "10.0.0.1", timestamp |-> 0, method |-> "GET", path |-> p,
        userAgent |-> "Mozilla/5.0", userId |-> u, role |-> r ] :
      p \in Paths, u \in UserIds, r \in {"guest", "user", "admin"} }

NoFnCall == [ fn |-> "", role |-> "", path |-> "", ctx |-> <<>>, score |-> 0,
              threw |-> FALSE, allowed |-> FALSE, risk |-> 0, reasons |-> <<>>,
              ruleLabel |-> "", finalLabel |-> "", req |-> <<>>,
              botScore |-> 0, signals |-> <<>> ]

\* what the JA3 middleware reads: user agent, cipher name, SNI or host,
\* issuer of the client certificate ("" where absent)
Handshakes ==
    { [ Browser EXCEPT !.ua = u, !.cipher = c, !.servername = s[1],
                       !.host = s[2], !.issuerCN = i ] :
        u \in { "Mozilla/5.0", "curl/8.4", "Python-urllib/3.9", "Wget/1.21",
                "node-fetch/1.0", "" },
        c \in { "TLS_AES_256_GCM_SHA384", "ECDHE-RSA-AES128-CBC-SHA", "RC4-SHA",
                "DES-CBC3-SHA", "ECDHE-RSA-3DES-EDE-SHA", "unknown" },
        s \in { <<"gw.example", "gw.example">>, <<"localhost", "localhost:4001">>,
                <<"127.0.0.1", "127.0.0.1:4001">>, <<"", "localhost">>,
                <<"", "localhost:4001">>, <<"", "">> },
        i \in { "Corp CA", "", "self-signed", "Acme self-signed CA" } }

\* the JA3 middleware on one request
CallFingerprint(req) ==
    /\ variant = "pure"
    /\ LET fp == tlsFingerprint(req)
       IN  lastCall' = [ NoFnCall EXCEPT
                           !.fn = "tlsFingerprint", !.req = req,
                           !.botScore = fp.botScore, !.signals = fp.signals ]
    /\ UNCHANGED <<variant, now, rateLimitMap, auditLogs, reqs, adminOut, rlWin, rlLast>>

\* checkRBAC(role, pathReq)
CallCheckRBAC(role, pathReq) ==
    /\ variant = "pure"
    /\ lastCall' = [ NoFnCall EXCEPT
                       !.fn = "checkRBAC", !.role = role, !.path = pathReq,
                       !.threw = checkRBACThrows(role, pathReq),
                       !.allowed = IF checkRBACThrows(role, pathReq) THEN FALSE
                                   ELSE checkRBAC(role, pathReq) ]
    /\ UNCHANGED <<variant, now, rateLimitMap, auditLogs, reqs, adminOut, rlWin, rlLast>>

\* checkRiskRule(ctx)
CallCheckRiskRule(ctx) ==
    /\ variant = "pure"
    /\ LET d == checkRiskRule(ctx)
       IN  lastCall' = [ NoFnCall EXCEPT
                           !.fn = "checkRiskRule", !.ctx = ctx, !.risk = d.risk,
                           !.reasons = d.reasons, !.ruleLabel = d.label ]
    /\ UNCHANGED <<variant, now, rateLimitMap, auditLogs, reqs, adminOut, rlWin, rlLast>>

\* the two label expressions applied to one score: line 48 and line 180
CallLabels(score) ==
    /\ variant = "pure"
    /\ lastCall' = [ NoFnCall EXCEPT
                       !.fn = "labels", !.score = score,
                       !.ruleLabel = riskLabel(score),
                       !.finalLabel = finalLabelOf(score) ]
    /\ UNCHANGED <<variant, now, rateLimitMap, auditLogs, reqs, adminOut, rlWin, rlLast>>

----------------------------------------------------------------------------
(* Initial states *)

NoCall == [ ip |-> "", allowed |-> TRUE, remaining |-> 0, reset |-> 0 ]

EmptyMap == [ x \in {} |-> NoWindow ]

InitFresh(v) ==
    /\ variant = v
    /\ now = 0
    /\ rateLimitMap = EmptyMap
    /\ auditLogs = <<>>
    /\ reqs = <<>>
    /\ rlWin = [ ip \in IPs |-> NoWindow ]
    /\ rlLast = NoCall
    /\ adminOut = NoAdminOut
    /\ lastCall = NoFnCall

\* The TLS gateway after one client has been served Busy times at time 0:
\* the same request each time, scored 0 by the ML service and answered 200
\* by the backend.
BusyReq == With(Browser, "10.0.0.1", "user", "alice", "/info")

Busy == MAX_REQUESTS_PER_WINDOW - 1

BusyEntry(i) ==
    LET ctx == buildContext(BusyReq, 0)
        ml  == scoreWithML([ok |-> TRUE, ml_risk |-> 0, ml_label |-> ""])
        tls == tlsDPI(BusyReq, ctx)
        rd  == checkRiskRule(ctx)
        fin == finalRiskOf(rd.risk, ml.ml_risk, tls.risk)
    IN  DecisionEntry(0 - i, 0,
            [ NewReq(BusyReq, ctx) EXCEPT
                !.forwardPath = forwardPathOf(BusyReq.url),
                !.ruleDecision = rd, !.tls = tls, !.ml = ml,
                !.finalRisk = fin, !.finalLabel = finalLabelOf(fin),
                !.rbacAllowed = checkRBAC(ctx.role, BusyReq.url) ])

InitBusy ==
    LET ip == BusyReq.ip
        lim[n \in 0..Busy] ==
            IF n = 0 THEN EmptyMap
            ELSE LET m == lim[n - 1]
                 IN  MapSet(m, ip, checkRateLimit(m, ip, 0).entry)
        win[n \in 0..Busy] ==
            IF n = 0 THEN [ x \in IPs |-> NoWindow ]
            ELSE ObserveCall(win[n - 1], ip, 0, TRUE)
    IN  /\ variant = "tls"
        /\ now = 0
        /\ rateLimitMap = lim[Busy]
        /\ auditLogs = [ i \in 1..Busy |-> BusyEntry(i) ]
        /\ reqs = <<>>
        /\ rlWin = win[Busy]
        /\ lastCall = NoFnCall
        /\ adminOut = NoAdminOut
        /\ rlLast = [ ip |-> ip, allowed |-> TRUE,
                      remaining |-> MAX_REQUESTS_PER_WINDOW - Busy,
                      reset |-> CeilDiv(RATE_LIMIT_WINDOW, 1000) ]

Init == InitFresh("tls") \/ InitFresh("cp1") \/ InitBusy

Next ==
    \/ \E req \in Requests : Receive(req)
    \/ \E id \in 1..MaxReqs, ans \in MLAnswers : Decide(id, ans)
    \/ \E id \in 1..MaxReqs : MLHang(id)
    \/ \E id \in 1..MaxReqs, st \in BackendStatuses : Relay(id, st)
    \/ \E id \in 1..MaxReqs : BackendError(id)
    \/ \E req \in Requests : Cp1Receive(req)
    \/ \E id \in 1..MaxReqs, st \in BackendStatuses : Cp1Relay(id, st)
    \/ \E id \in 1..MaxReqs : Cp1BackendError(id)

\* The requests of one instant: the clock stands still here and moves in the
\* runs of the rate limiter below.
Spec == Init /\ [][Next]_vars

\* Node runs every callback that is ready, and axios settles the promise of
\* the backend call (answer, error, or its 10 s timeout).  The promise of the
\* ML call settles when the service answers or the connection fails; a
\* service that holds the connection open leaves it pending (MLHang).
Fairness ==
    \A id \in 1..MaxReqs :
        /\ WF_vars((\E ans \in MLAnswers : Decide(id, ans)) \/ MLHang(id))
        /\ WF_vars((\E st \in BackendStatuses : Relay(id, st)) \/ BackendError(id))
        /\ WF_vars((\E st \in BackendStatuses : Cp1Relay(id, st)) \/ Cp1BackendError(id))

FairSpec == Init /\ [][Next]_vars /\ Fairness

\* The gateways with their admin endpoints in use
MaxAdminReqs == 1      \* /fw requests received after Init in these runs

NextAdmin ==
    \/ \E req \in Requests : ReceiveUpTo(req, MaxAdminReqs)
    \/ \E id \in 1..MaxAdminReqs, ans \in MLAnswers : Decide(id, ans)
    \/ \E id \in 1..MaxAdminReqs : MLHang(id)
    \/ \E id \in 1..MaxAdminReqs, st \in BackendStatuses : Relay(id, st)
    \/ \E id \in 1..MaxAdminReqs : BackendError(id)
    \/ \E req \in Requests : Cp1ReceiveUpTo(req, MaxAdminReqs)
    \/ \E id \in 1..MaxAdminReqs, st \in BackendStatuses : Cp1Relay(id, st)
    \/ \E id \in 1..MaxAdminReqs : Cp1BackendError(id)
    \/ GetHealth
    \/ GetLogs
    \/ \E format \in {"json", "csv"} : ExportLogs(format)
    \/ Cp1GetLogs
    \/ VerifyChain

SpecAdmin == Init /\ [][NextAdmin]_vars

\* The requests of the documented scenarios, each from every kind of client
MaxDocReqs == 1        \* /fw requests received after Init in these runs

DocRequests ==
    { With(base, "10.0.0.1", h[1], h[2], h[3]) :
        base \in { Browser, Plain, Local, Script },
        h \in { <<"user", "alice", "/info">>,
                <<"guest", "anonymous", "/admin/secret">>,
                <<"admin", "root", "/admin/secret">> } }

InitDoc == InitFresh("tls") \/ InitBusy

NextDoc ==
    \/ \E req \in DocRequests : ReceiveUpTo(req, MaxDocReqs)
    \/ \E id \in 1..MaxDocReqs, ans \in MLAnswers : Decide(id, ans)
    \/ \E id \in 1..MaxDocReqs : MLHang(id)
    \/ \E id \in 1..MaxDocReqs, st \in BackendStatuses : Relay(id, st)
    \/ \E id \in 1..MaxDocReqs : BackendError(id)

SpecDoc == InitDoc /\ [][NextDoc]_vars

\* Requests with pauses between them
MaxSessionReqs == 3    \* /fw requests received after Init in these runs
MaxIdle == 600002      \* the clock stops here in these runs

IdleDeltas == { 300000, 300001 }

Idle(d) ==
    /\ now + d <= MaxIdle
    /\ now' = now + d
    /\ UNCHANGED <<variant, lastCall, adminOut, rateLimitMap, auditLogs, reqs, rlWin, rlLast>>

SessionRequests ==
    { With(Script,  "10.0.0.1", "user", "alice", "/info"),
      With(Browser, "10.0.0.1", "user", "alice", "/info"),
      With(Browser, "10.0.0.2", "user", "alice", "/info") }

NextSession ==
    \/ \E req \in SessionRequests : ReceiveUpTo(req, MaxSessionReqs)
    \/ \E d \in IdleDeltas : Idle(d)

SpecSession == InitFresh("tls") /\ [][NextSession]_vars

\* A burst: requests arrive faster than the ML service answers
MaxBurstReqs == 6      \* /fw requests received after Init in these runs

BurstRequests == { With(Browser, ip, "user", "alice", "/info") : ip \in IPs }

NextBurst == \E req \in BurstRequests : ReceiveUpTo(req, MaxBurstReqs)

SpecBurst == InitDoc /\ [][NextBurst]_vars

\* Requests handled concurrently while the clock runs: a request is received
\* (the synchronous part of inspectAndForward up to its first await) while
\* others wait for the ML service or the backend.
MaxConcReqs == 3       \* /fw requests received after Init in these runs

\* one client sending the same request, the ML service answering "no risk",
\* the backend answering 200 or failing
NextConc ==
    \/ ReceiveUpTo(BusyReq, MaxConcReqs)
    \/ \E id \in 1..MaxConcReqs :
          Decide(id, [ok |-> TRUE, ml_risk |-> 0, ml_label |-> ""])
    \/ \E id \in 1..MaxConcReqs : MLHang(id)
    \/ \E id \in 1..MaxConcReqs : Relay(id, 200)
    \/ \E id \in 1..MaxConcReqs : BackendError(id)
    \/ Tick(RATE_LIMIT_WINDOW + 1)

SpecConc == InitDoc /\ [][NextConc]_vars

\* Requests for the paths RBAC guards, from every kind of role
MaxPathReqs == 1       \* /fw requests received after Init in these runs

PathRequests ==
    { With(Browser, "10.0.0.1", role, uid, url) :
        role \in { "guest", "user", "", "manager", "constructor", "admin" },
        uid  \in { "alice", "" },
        url  \in { "/admin", "/admin/secret", "/administrator", "/fw/admin/secret",
                   "/info", "/profile", "/info/../admin/secret",
                   "/info/./details" } }

NextPaths ==
    \/ \E req \in PathRequests : ReceiveUpTo(req, MaxPathReqs)
    \/ \E id \in 1..MaxPathReqs, ans \in MLAnswers : Decide(id, ans)
    \/ \E id \in 1..MaxPathReqs : MLHang(id)
    \/ \E id \in 1..MaxPathReqs, st \in BackendStatuses : Relay(id, st)
    \/ \E id \in 1..MaxPathReqs : BackendError(id)

SpecPaths == InitFresh("tls") /\ [][NextPaths]_vars

\* The rate limiter alone
InitRL == InitFresh("limiter")

NextRL ==
    \/ \E ip \in IPs : Call(ip)
    \/ \E d \in Deltas : Tick(d)

SpecRL == InitRL /\ [][NextRL]_vars

\* The pure functions alone
InitPure == InitFresh("pure")

NextPure ==
    \/ \E role \in Roles, pathReq \in Paths : CallCheckRBAC(role, pathReq)
    \/ \E ctx \in Contexts : CallCheckRiskRule(ctx)
    \/ \E score \in Scores : CallLabels(score)
    \/ \E req \in Handshakes : CallFingerprint(req)

SpecPure == InitPure /\ [][NextPure]_vars

TypeOK ==
    /\ variant \in {"tls", "cp1", "limiter", "pure"}
    /\ now \in 0..MaxTime
    /\ DOMAIN rateLimitMap \subseteq IPs
    /\ Len(reqs) <= MaxReqs

----------------------------------------------------------------------------
(* Verification of the rate limiter and of the decision pipeline *)

\* the audit entries written for request id
EntriesOf(id) == { i \in 1..Len(auditLogs) : auditLogs[i].id = id }

\* the largest element of a non-empty set of numbers
Largest(S) == CHOOSE m \in S : \A x \in S : m >= x

Ids == 1..NumReqs

\* C1: with ceiling N = MAX_REQUESTS_PER_WINDOW, a call of checkRateLimit for
\* an ip is allowed exactly when it is one of the first N calls of that ip's
\* current 60 s window: call N+1 of a window is denied, and the first call
\* after the window's reset time has passed (call 1 of the next window) is
\* allowed again.
C1_WindowCeiling ==
    rlLast.ip # "" =>
        LET w == rlWin[rlLast.ip]
        IN  /\ rlLast.allowed <=> w.calls <= MAX_REQUESTS_PER_WINDOW
            /\ w.calls = MAX_REQUESTS_PER_WINDOW + 1 => ~rlLast.allowed
            /\ w.calls = 1 => rlLast.allowed

\* an ip was denied in one window and its first call of the next is allowed
C1_Witness ==
    /\ rlLast.ip # ""
    /\ rlWin[rlLast.ip].index = 2
    /\ rlWin[rlLast.ip].before
    /\ rlWin[rlLast.ip].calls = 1
    /\ rlLast.allowed

\* C2: a /fw request the rate limiter denies is answered 429 with the
\* limiter's remaining / reset values, has exactly one audit entry (allow
\* false, label ratelimited, risk 1.0), and neither the rule engine, the ML
\* service, RBAC nor the backend was invoked for it.
C2_RateLimitShortCircuit ==
    \A id \in Ids :
        reqs[id].limited =>
            /\ reqs[id].pc = "done"
            /\ reqs[id].response.status = 429
            /\ reqs[id].response.kind = "ratelimit"
            /\ reqs[id].response.remaining < 0
            /\ reqs[id].response.reset \in 0..(RATE_LIMIT_WINDOW \div 1000)
            /\ Cardinality(EntriesOf(id)) = 1
            /\ \A i \in EntriesOf(id) :
                   /\ auditLogs[i].allow = FALSE
                   /\ auditLogs[i].label = "ratelimited"
                   /\ auditLogs[i].risk = 100
            /\ reqs[id].invoked = {}
            /\ reqs[id].backendCalls = 0

C2_Witness == \E id \in Ids : reqs[id].limited /\ reqs[id].response.status = 429

\* C3: for every /fw request that passed the rate limiter and was decided,
\* the logged decision.allow is true exactly when RBAC allows the requested
\* path and the final risk is below 0.95, and the gateway answers with its
\* 403 block exactly when the logged decision.allow is false.
C3_VerdictMatchesResponse ==
    \A id \in Ids :
        (variant = "tls" /\ reqs[id].decided) =>
            /\ Cardinality({ i \in EntriesOf(id) : auditLogs[i].kind = "decision" }) = 1
            /\ \A i \in EntriesOf(id) :
                 /\ auditLogs[i].allow <=>
                        /\ checkRBAC(reqs[id].ctx.role, reqs[id].req.url)
                        /\ auditLogs[i].risk < BLOCK_THRESHOLD
                 /\ auditLogs[i].allow => reqs[id].response.kind # "block"
                 /\ ~auditLogs[i].allow =>
                        /\ reqs[id].response.kind = "block"
                        /\ reqs[id].response.status = 403

\* a request RBAC allows is blocked for its risk, and an allowed request gets
\* a 403 of the backend relayed
C3_Witness ==
    /\ \E id \in Ids :
         /\ reqs[id].decided /\ reqs[id].rbacAllowed
         /\ reqs[id].response.kind = "block"
    /\ \E id \in Ids :
         /\ reqs[id].decided
         /\ reqs[id].response.kind = "relay" /\ reqs[id].response.status = 403

\* C4: in the TLS gateway the backend is contacted only for requests that
\* were not rate-limited and whose decision is allow (RBAC allows the path
\* and the final risk is below 0.95).
C4_BackendOnlyIfAllowed ==
    \A id \in Ids :
        (variant = "tls" /\ reqs[id].backendCalls > 0) =>
            /\ ~reqs[id].limited
            /\ reqs[id].response.status # 429
            /\ checkRBAC(reqs[id].ctx.role, reqs[id].req.url)
            /\ Largest({ checkRiskRule(reqs[id].ctx).risk, reqs[id].ml.ml_risk,
                         reqs[id].tls.risk }) < BLOCK_THRESHOLD
            /\ \E i \in EntriesOf(id) :
                   auditLogs[i].kind = "decision" /\ auditLogs[i].allow

\* the backend was contacted for one request and another was turned away
C4_Witness ==
    /\ variant = "tls"
    /\ \E id \in Ids : reqs[id].backendCalls > 0
    /\ \E id \in Ids : reqs[id].response.kind \in {"block", "ratelimit"}

\* C5 (as claimed): whenever the backend has been contacted for a /fw
\* request, or a response has been sent for it, the audit log already holds
\* an entry of that request.
C5_LoggedBeforeForwarding ==
    \A id \in Ids :
        (reqs[id].backendCalls > 0 \/ reqs[id].response.kind \in
             {"ratelimit", "block", "relay", "backend_error"})
            => EntriesOf(id) # {}

----------------------------------------------------------------------------
(* Session Tracker of the design (spec 4.3): kept per client ip and updated *)
(* once per request.  The gateways have no such table; it is written here   *)
(* as the design describes it, computed from the requests received.  The    *)
(* boost decays by the factor 0.9 when the request comes more than five     *)
(* minutes after the last one of its ip, before the increments of the       *)
(* request are added; in hundredths the product is rounded down.            *)

DECAY_AFTER == 300000

NewSession == [ count |-> 0, ciphers |-> 0, last |-> 0, decayed |-> 0, riskBoost |-> 0 ]

\* the tracker without the decay
recordRequest_noDecay(old, cipher, t) ==
    [ count     |-> old.count + 1,
      ciphers   |-> old.ciphers + 1,
      last      |-> t,
      decayed   |-> old.riskBoost,
      riskBoost |-> old.riskBoost + (IF WeakCipher(cipher) THEN 15 ELSE 0)
                                  + (IF old.ciphers + 1 > 10 THEN 25 ELSE 0) ]

\* decayed is the boost after the decay and before the increments
recordRequest(old, cipher, t) ==
    LET decayed == IF old.count > 0 /\ t - old.last > DECAY_AFTER
                   THEN (old.riskBoost * 9) \div 10
                   ELSE old.riskBoost
    IN  [ count     |-> old.count + 1,
          ciphers   |-> old.ciphers + 1,
          last      |-> t,
          decayed   |-> decayed,
          riskBoost |-> decayed + (IF WeakCipher(cipher) THEN 15 ELSE 0)
                                + (IF old.ciphers + 1 > 10 THEN 25 ELSE 0) ]

\* the session of request id's client when the request has been recorded
sessionAt(id) ==
    LET ip == reqs[id].ctx.ip
        served == Cardinality({ i \in 1..Len(auditLogs) : auditLogs[i].id < 0 })
        base[n \in 0..served] ==
            IF n = 0 \/ ip # BusyReq.ip THEN NewSession
            ELSE recordRequest(base[n - 1], BusyReq.cipher, 0)
        ses[k \in 0..id] ==
            IF k = 0 THEN base[served]
            ELSE IF reqs[k].ctx.ip = ip
                 THEN recordRequest(ses[k - 1], reqs[k].req.cipher,
                                    reqs[k].ctx.timestamp)
                 ELSE ses[k - 1]
    IN  ses[id]

C7_MLFailsOpen ==
    \A id \in Ids :
        reqs[id].mlState = "failed" =>
            LET alone == Largest({ checkRiskRule(reqs[id].ctx).risk,
                                   tlsDPI(reqs[id].req, reqs[id].ctx).risk })
            IN  /\ reqs[id].ml = [ml_risk |-> 0, ml_label |-> "normal"]
                /\ reqs[id].decided
                /\ \E i \in EntriesOf(id) : auditLogs[i].kind = "decision"
                /\ \A i \in EntriesOf(id) :
                     /\ auditLogs[i].mlRisk = 0
                     /\ auditLogs[i].risk = alone
                     /\ auditLogs[i].label = finalLabelOf(alone)
                     /\ auditLogs[i].allow <=>
                            /\ checkRBAC(reqs[id].ctx.role, reqs[id].req.url)
                            /\ alone < BLOCK_THRESHOLD

\* C8 (as claimed): every /fw request that passes the rate limiter is
\* eventually logged and answered, whatever the ML service does.  Stated for
\* the requests whose role checkRBAC can look up, so that what refutes it is
\* the ML call.
C8_AlwaysAnswered ==
    \A id \in 1..MaxReqs :
        [](( /\ variant = "tls" /\ id \in Ids
             /\ ~reqs[id].limited
             /\ ~checkRBACThrows(reqs[id].ctx.role, reqs[id].req.url) )
           => <>( /\ EntriesOf(id) # {}
                  /\ reqs[id].response.kind # "none" ))

\* C9 (as claimed): when the backend call of an allowed request fails, the
\* client gets 500 and the log holds a record of the request with status
\* code 500 and decision label gateway_error.
C9_GatewayErrorLabel ==
    \A id \in Ids :
        reqs[id].response.kind = "backend_error" =>
            /\ reqs[id].response.status = 500
            /\ \E i \in EntriesOf(id) :
                   /\ auditLogs[i].statusCode = 500
                   /\ auditLogs[i].label = "gateway_error"

\* C10: the audit log is append-only: no step of a /fw request, of an admin
\* read or of an export shortens it or changes the entry at any position.
C10_AppendOnly ==
    [][ /\ Len(auditLogs') >= Len(auditLogs)
        /\ \A i \in 1..Len(auditLogs) : auditLogs'[i] = auditLogs[i] ]_vars

\* the log has grown since an export was served
C10_Witness ==
    /\ adminOut.endpoint = "/admin/logs/export"
    /\ adminOut.logCount > 0
    /\ Len(auditLogs) > adminOut.logCount

----------------------------------------------------------------------------
(* Verification of the audit chain *)

\* C11 (as claimed): the audit log is a hash chain: every entry stores a hash
\* and a prevHash, the first entry's prevHash is the genesis hash, and every
\* later entry's prevHash is the stored hash of the entry before it; stated
\* of the entries the requests of the run append.
C11_HashChain ==
    \A id \in Ids : \A i \in EntriesOf(id) :
        /\ {"hash", "prevHash"} \subseteq DOMAIN auditLogs[i]
        /\ i = 1 => auditLogs[i].prevHash = "GENESIS"
        /\ i > 1 => auditLogs[i].prevHash = auditLogs[i - 1].hash

\* C12 (as claimed): GET /verify-chain on a log with entries that nobody touched (no step of
\* the gateways rewrites an entry) is answered 200 with valid: true.
C12_VerifyChainAnswers ==
    (adminOut.endpoint = "/verify-chain" /\ adminOut.logCount > 0) =>
        /\ adminOut.status = 200
        /\ "valid" \in DOMAIN adminOut.body
        /\ adminOut.body.valid

----------------------------------------------------------------------------
(* Verification of the pure functions *)

ConfiguredRoles == { "guest", "user", "admin" }

C14_UnknownRoleIsGuest ==
    (lastCall.fn = "checkRBAC" /\ lastCall.role \notin ConfiguredRoles) =>
        /\ ~lastCall.threw
        /\ lastCall.allowed = checkRBAC("guest", lastCall.path)

\* the heuristics of the rule engine a context triggers, read off the context
Triggered(c) ==
    (IF c.userId \in {"", "anonymous"} THEN {"anonymous"} ELSE {})
    \cup (IF StartsWith(c.path, "/admin") THEN {"admin_path"} ELSE {})
    \cup (IF StartsWith(c.path, "/admin") /\ c.role = "guest"
          THEN {"guest_on_admin_path"} ELSE {})
    \cup (IF StartsWith(c.path, "/honeypot") THEN {"honeypot_path"} ELSE {})

\* context d triggers what context c triggers and exactly one heuristic more
OneMore(c, d) ==
    /\ Triggered(c) \subseteq Triggered(d)
    /\ Cardinality(Triggered(d) \ Triggered(c)) = 1

\* C15: whenever checkRiskRule has scored a context, every context that
\* triggers the same heuristics and one more is scored at least as high.
C15_RiskMonotone ==
    lastCall.fn = "checkRiskRule" =>
        \A d \in Contexts :
            OneMore(lastCall.ctx, d) => checkRiskRule(d).risk >= lastCall.risk

\* a user on an admin path was scored, and the same request as guest
\* triggers one heuristic more
C15_Witness ==
    /\ lastCall.fn = "checkRiskRule"
    /\ lastCall.ctx.role = "user" /\ lastCall.ctx.userId = "anonymous"
    /\ lastCall.ctx.path = "/admin/secret"
    /\ lastCall.risk = 60
    /\ OneMore(lastCall.ctx, [ lastCall.ctx EXCEPT !.role = "guest" ])

\* C16 (as claimed): for every score, the aggregator's label of a final risk
\* of that score is the label checkRiskRule gives a rule risk of that score.
C16_SameThresholds ==
    lastCall.fn = "labels" => lastCall.finalLabel = lastCall.ruleLabel

----------------------------------------------------------------------------
(* Verification of the decisions on the documented requests *)

\* C17: a 403 block of the gateway carries reason 'RBAC violation' whenever
\* RBAC denied the path, whatever the risk, and 'Critical risk' only when
\* RBAC allowed and the final risk reached 0.95; a decided request of role
\* guest, user anonymous, path /admin/secret is answered 403 with reason
\* 'RBAC violation'.
C17_BlockReason ==
    \A id \in Ids :
        (variant = "tls" /\ reqs[id].decided) =>
            LET r      == reqs[id]
                denied == ~checkRBAC(r.ctx.role, r.req.url)
            IN  /\ r.response.kind = "block" =>
                      /\ r.response.status = 403
                      /\ denied => r.response.reason = "RBAC violation"
                      /\ r.response.reason = "Critical risk" =>
                             (~denied /\ r.finalRisk >= BLOCK_THRESHOLD)
                      /\ r.response.reason \in {"RBAC violation", "Critical risk"}
                /\ ( /\ r.ctx.role = "guest" /\ r.ctx.userId = "anonymous"
                     /\ r.ctx.path = "/admin/secret" ) =>
                      /\ r.response.kind = "block"
                      /\ r.response.status = 403
                      /\ r.response.reason = "RBAC violation"

\* one request was denied by RBAC at a critical risk, another was allowed by
\* RBAC and blocked for its risk
C17_Witness ==
    /\ \E id \in Ids :
         /\ reqs[id].decided /\ ~reqs[id].rbacAllowed
         /\ reqs[id].ctx.role = "guest" /\ reqs[id].ctx.path = "/admin/secret"
         /\ reqs[id].finalRisk >= BLOCK_THRESHOLD
         /\ reqs[id].response.reason = "RBAC violation"
    /\ \E id \in Ids :
         /\ reqs[id].decided /\ reqs[id].rbacAllowed
         /\ reqs[id].response.reason = "Critical risk"

\* a client with no scripted user agent and no weak cipher
Ordinary(req) ==
    /\ \A w \in {"curl", "wget", "python-urllib", "node-fetch"} :
           ~Includes(ToLowerCase(req.ua), w)
    /\ \A w \in {"RC4", "CBC", "3DES"} : ~Includes(req.cipher, w)

\* C18 (as claimed): a decided request of role user, user alice, path /info
\* from an ordinary client with ML risk 0 is allowed and sent to the backend,
\* with final risk below 0.4 and final label normal.
C18_AliceInfoNormal ==
    \A id \in Ids :
        ( /\ reqs[id].decided
          /\ reqs[id].ctx.role = "user" /\ reqs[id].ctx.userId = "alice"
          /\ reqs[id].ctx.path = "/info"
          /\ Ordinary(reqs[id].req)
          /\ reqs[id].mlState = "answered" /\ reqs[id].ml.ml_risk = 0 ) =>
            /\ reqs[id].response.kind # "block"
            /\ reqs[id].backendCalls > 0
            /\ reqs[id].finalRisk < 40
            /\ reqs[id].finalLabel = "normal"

\* C19: for a request of role admin, user root, path /admin/secret that
\* passed the rate limiter, the rule risk is 0.45 with reasons exactly
\* [admin_path]; once decided, RBAC allows it, and if ML risk and transport
\* risk are both below 0.95 it is logged as allowed and sent to the backend.
C19_AdminRootAllowed ==
    \A id \in Ids :
        ( /\ ~reqs[id].limited
          /\ reqs[id].ctx.role = "admin" /\ reqs[id].ctx.userId = "root"
          /\ reqs[id].ctx.path = "/admin/secret" ) =>
            /\ reqs[id].ruleDecision.risk = 45
            /\ reqs[id].ruleDecision.reasons = <<"admin_path">>
            /\ reqs[id].decided =>
                  /\ reqs[id].rbacAllowed
                  /\ ( /\ reqs[id].ml.ml_risk < BLOCK_THRESHOLD
                       /\ reqs[id].tls.risk < BLOCK_THRESHOLD ) =>
                        /\ reqs[id].response.kind # "block"
                        /\ reqs[id].backendCalls > 0
                        /\ \E i \in EntriesOf(id) :
                               /\ auditLogs[i].kind = "decision"
                               /\ auditLogs[i].allow /\ auditLogs[i].rbac

\* admin root was sent to the backend at an ML risk of 0.92
C19_Witness ==
    \E id \in Ids :
        /\ reqs[id].decided
        /\ reqs[id].ctx.role = "admin" /\ reqs[id].ctx.userId = "root"
        /\ reqs[id].ctx.path = "/admin/secret"
        /\ reqs[id].ml.ml_risk = 92
        /\ reqs[id].backendCalls > 0

----------------------------------------------------------------------------
(* Verification of the rate limiter's answers in a burst *)

\* the position of request id among the calls of its ip in the window
CallNumber(id) ==
    rlWin[reqs[id].ctx.ip].calls
    - Cardinality({ j \in Ids : j > id /\ reqs[j].ctx.ip = reqs[id].ctx.ip })

\* C20: inside one window the k-th request of an ip gets remaining =
\* ceiling - k from checkRateLimit and is allowed exactly when that is >= 0;
\* every request past the ceiling is answered 429 with that remaining, so
\* the remaining values of requests 21, 22, ... strictly decrease.
C20_RemainingCountsDown ==
    /\ rlLast.ip # "" =>
          /\ rlLast.remaining = MAX_REQUESTS_PER_WINDOW - rlWin[rlLast.ip].calls
          /\ rlLast.allowed <=> rlLast.remaining >= 0
    /\ \A id \in Ids :
          /\ reqs[id].limited <=> CallNumber(id) > MAX_REQUESTS_PER_WINDOW
          /\ reqs[id].limited =>
                /\ reqs[id].response.status = 429
                /\ reqs[id].response.remaining =
                       MAX_REQUESTS_PER_WINDOW - CallNumber(id)
    /\ \A i, j \in Ids :
          ( /\ i < j /\ reqs[i].ctx.ip = reqs[j].ctx.ip
            /\ reqs[i].limited /\ reqs[j].limited ) =>
              reqs[j].response.remaining < reqs[i].response.remaining

\* the 25th request of the window was answered 429 with remaining -5
C20_Witness ==
    \E id \in Ids :
        /\ CallNumber(id) = MAX_REQUESTS_PER_WINDOW + 5
        /\ reqs[id].response.status = 429
        /\ reqs[id].response.remaining = 0 - 5

----------------------------------------------------------------------------
(* Verification of the export and of the audit records *)

\* C21 (as claimed): in a JSON export, the record of every entry the decision
\* pipeline wrote carries the entry's final risk, rule risk, ML risk, final
\* label and reason list.
C21_ExportKeepsValues ==
    (adminOut.endpoint = "/admin/logs/export"
        /\ adminOut.contentType = "application/json") =>
        \A i \in 1..Len(adminOut.body) :
            auditLogs[i].kind \in {"decision", "error"} =>
                /\ adminOut.body[i].risk_score = auditLogs[i].risk
                /\ adminOut.body[i].risk_label = auditLogs[i].label
                /\ adminOut.body[i].rule_risk = auditLogs[i].ruleRisk
                /\ adminOut.body[i].ml_risk = auditLogs[i].mlRisk
                /\ adminOut.body[i].reasons = auditLogs[i].reasons

\* the request of the same ip received last before request id, 0 if none
PrevOfIp(id) ==
    LET S == { k \in 1..(id - 1) : reqs[k].ctx.ip = reqs[id].ctx.ip }
    IN  IF S = {} THEN 0 ELSE Largest(S)

\* C22: when a request comes more than 5 minutes after the last request of
\* its ip, the session's risk boost is first brought to at most 0.9 times
\* the value it had, and the increments of the request are added to that.
C22_BoostDecays ==
    \A id \in Ids :
        LET k == PrevOfIp(id)
        IN  (k > 0 /\ reqs[id].ctx.timestamp - reqs[k].ctx.timestamp > DECAY_AFTER) =>
                /\ 10 * sessionAt(id).decayed <= 9 * sessionAt(k).riskBoost
                /\ sessionAt(id).riskBoost =
                       sessionAt(id).decayed
                       + (IF WeakCipher(reqs[id].req.cipher) THEN 15 ELSE 0)
                       + (IF sessionAt(id).ciphers > 10 THEN 25 ELSE 0)

\* a request came after a pause of more than 5 minutes to a session with a
\* boost, and added its own increment to the decayed boost
C22_Witness ==
    \E id \in Ids :
        LET k == PrevOfIp(id)
        IN  /\ k > 0
            /\ reqs[id].ctx.timestamp - reqs[k].ctx.timestamp > DECAY_AFTER
            /\ sessionAt(k).riskBoost > 0
            /\ sessionAt(id).decayed < sessionAt(k).riskBoost
            /\ sessionAt(id).riskBoost > sessionAt(id).decayed

C24_StatusLogged ==
    \A id \in Ids :
        (reqs[id].pc = "done" /\ reqs[id].response.kind = "relay") =>
            \E i \in EntriesOf(id) :
                /\ HasStatus(auditLogs[i])
                /\ auditLogs[i].statusCode = reqs[id].response.status

\* C25: the gateways call the backend at most once for a /fw request:
\* exactly once when the answer or the 500 of a failed call has been sent,
\* not at all for a blocked or rate-limited request.
C25_NoRetry ==
    \A id \in Ids :
        /\ reqs[id].backendCalls <= 1
        /\ reqs[id].response.kind \in {"relay", "backend_error"} =>
               reqs[id].backendCalls = 1
        /\ reqs[id].response.kind \in {"block", "ratelimit"} =>
               reqs[id].backendCalls = 0

\* a backend call failed and the request was answered 500 after its one call
C25_Witness ==
    \E id \in Ids :
        /\ reqs[id].pc = "done"
        /\ reqs[id].response.kind = "backend_error"
        /\ reqs[id].response.status = 500
        /\ reqs[id].backendCalls = 1

----------------------------------------------------------------------------
(* Verification of the scores *)

\* the reason code and the weight of a heuristic
ReasonOf(h) == IF h = "anonymous" THEN "no_user_id" ELSE h

WeightOf(h) ==
    CASE h = "anonymous"           -> 15
      [] h = "admin_path"          -> 45
      [] h = "guest_on_admin_path" -> 25
      [] h = "honeypot_path"       -> 75

RECURSIVE SumWeights(_)
SumWeights(S) ==
    IF S = {} THEN 0
    ELSE LET h == CHOOSE x \in S : TRUE
         IN  WeightOf(h) + SumWeights(S \ {h})

\* C26: the rule risk checkRiskRule returns lies in [0,1] and is the sum of
\* the weights of the heuristics the context triggers; the reasons name
\* exactly these heuristics, each once.
C26_RuleRiskIsSum ==
    lastCall.fn = "checkRiskRule" =>
        LET T == Triggered(lastCall.ctx)
        IN  /\ lastCall.risk \in 0..100
            /\ lastCall.risk = SumWeights(T)
            /\ { lastCall.reasons[i] : i \in 1..Len(lastCall.reasons) }
                   = { ReasonOf(h) : h \in T }
            /\ Len(lastCall.reasons) = Cardinality(T)

\* an anonymous guest on an admin path: three heuristics, 0.85
C26_Witness ==
    /\ lastCall.fn = "checkRiskRule"
    /\ Triggered(lastCall.ctx) = {"anonymous", "admin_path", "guest_on_admin_path"}
    /\ lastCall.risk = 85
    /\ Len(lastCall.reasons) = 3

\* the signals a handshake triggers, read off its fields: a scripted user
\* agent, a weak cipher, an SNI that is absent or names the local host, an
\* issuer that is absent or self-signed
SignalsOf(req) ==
    (IF req.ua \in {"curl/8.4", "Python-urllib/3.9", "Wget/1.21", "node-fetch/1.0"}
     THEN {"scripted_ua"} ELSE {})
    \cup (IF req.cipher \in {"ECDHE-RSA-AES128-CBC-SHA", "RC4-SHA", "DES-CBC3-SHA",
                            "ECDHE-RSA-3DES-EDE-SHA"}
          THEN {"weak_cipher"} ELSE {})
    \cup (IF req.servername \in {"", "localhost", "127.0.0.1"}
          THEN {"local_sni"} ELSE {})
    \cup (IF req.issuerCN \in {"", "self-signed", "Acme self-signed CA"}
          THEN {"selfsigned_cert"} ELSE {})

SignalWeight(g) ==
    CASE g = "scripted_ua"     -> 35
      [] g = "weak_cipher"     -> 25
      [] g = "local_sni"       -> 10
      [] g = "selfsigned_cert" -> 15

RECURSIVE SumSignals(_)
SumSignals(S) ==
    IF S = {} THEN 0
    ELSE LET g == CHOOSE x \in S : TRUE
         IN  SignalWeight(g) + SumSignals(S \ {g})

\* C27: the bot score of the fingerprint is min(1.0, sum of the weights of
\* the triggered signals), lies in [0,1], and the signals list names exactly
\* the triggered signals, each once.
C27_BotScoreIsSum ==
    lastCall.fn = "tlsFingerprint" =>
        LET T == SignalsOf(lastCall.req)
        IN  /\ lastCall.botScore = Min(100, SumSignals(T))
            /\ lastCall.botScore \in 0..100
            /\ { lastCall.signals[i] : i \in 1..Len(lastCall.signals) } = T
            /\ Len(lastCall.signals) = Cardinality(T)

\* C28: however the handlers of concurrent requests interleave, at most
\* MAX_REQUESTS_PER_WINDOW calls of one IP pass the rate limiter in one window,
\* and after a call of an IP was denied in a window no later call of that IP
\* in the same window is allowed.
C28_AtMostNPass ==
    /\ \A ip \in IPs : rlWin[ip].passed <= MAX_REQUESTS_PER_WINDOW
    /\ rlLast.ip # "" =>
          (rlWin[rlLast.ip].denied => ~rlLast.allowed)

\* two requests of one IP denied in a window that let N pass, while an
\* earlier request of that IP still waits for the ML service or the backend
C28_Witness ==
    \E ip \in IPs :
        /\ rlWin[ip].passed = MAX_REQUESTS_PER_WINDOW
        /\ rlWin[ip].calls = MAX_REQUESTS_PER_WINDOW + 2
        /\ rlLast.ip = ip /\ ~rlLast.allowed
        /\ \E id \in 1..NumReqs :
              /\ reqs[id].ctx.ip = ip
              /\ reqs[id].pc \notin {"start", "done"}

\* the roles whose policy is the wildcard
Wildcard(role) == role = "admin"

\* C29: a request whose role has no wildcard policy is never forwarded to a
\* backend path beginning with /admin: the path RBAC checked is the path
\* appended to the backend URL, and RBAC denies every path beginning with
\* /admin for these roles, whatever the user id, the risk or the ML answer.
C29_NoAdminPathForOthers ==
    \A id \in 1..NumReqs :
        ~Wildcard(reqs[id].ctx.role) =>
            /\ reqs[id].backendCalls > 0 => ~StartsWith(reqs[id].sent, "/admin")
            /\ reqs[id].backendCalls > 0 =>
                  reqs[id].target = "https://localhost:9001" \o reqs[id].forwardPath
            /\ reqs[id].decided /\ StartsWith(reqs[id].forwardPath, "/admin") =>
                  ~reqs[id].rbacAllowed /\ reqs[id].backendCalls = 0

\* the rate-limit entry of ip, NULL where the table has none
EntryOfIp(map, ip) == IF ip \in DOMAIN map THEN <<map[ip].count, map[ip].resetTime>>
                      ELSE <<NULL, NULL>>

\* C30: the rate-limit table changes only when a /fw request is received, and
\* then only in the count and reset time of the caller's IP; /health,
\* /admin/logs and /admin/logs/export change neither the table nor the audit log.
C30_RateLimitFrame ==
    [][ /\ rateLimitMap' # rateLimitMap =>
            /\ Len(reqs') = Len(reqs) + 1
            /\ \A ip \in IPs \ { reqs'[Len(reqs')].ctx.ip } :
                  EntryOfIp(rateLimitMap', ip) = EntryOfIp(rateLimitMap, ip)
        /\ adminOut' # adminOut =>
            /\ rateLimitMap' = rateLimitMap
            /\ auditLogs' = auditLogs ]_vars

\* both IPs have an entry, the first still at the count it had before the
\* second IP's request, and the export has been read since
C30_Witness ==
    /\ DOMAIN rateLimitMap = IPs
    /\ rateLimitMap["10.0.0.1"].count = Busy
    /\ rateLimitMap["10.0.0.2"].count = 1
    /\ Len(auditLogs) > Busy
    /\ adminOut.endpoint = "/admin/logs/export"
    /\ adminOut.logCount = Len(auditLogs)

====
